---- MODULE Spec2Model ----
(***************************************************************************)
(* Sudoku puzzle engine of aalhaj/Sudoku: the validator, the backtracking  *)
(* solver, the capped solution counter, the puzzle generator and the game  *)
(* object that calls them.  Two program variants exist side by side:       *)
(* "basic" is src/sudoku_game.py, "enhanced" is src/sudoku_enhanced.py.    *)
(*                                                                         *)
(* A grid is a function [0..8 -> [0..8 -> 0..9]], indexed board[row][col]  *)
(* exactly as the Python lists are; 0 is a blank cell.                     *)
(*                                                                         *)
(* The recursive searches are written as the machine the interpreter runs: *)
(* a stack of activation frames and a program counter ("call", "loop",     *)
(* "ret", "done").  One step is one call entry, one iteration of the       *)
(* `for num` loop, or one return into the caller.  A whole call is the     *)
(* step iterated to "done".                                                *)
(***************************************************************************)
EXTENDS Integers, Sequences, FiniteSets, TLC

VARIABLES
    call,            \* harness of the pure functions: the call and its result
    gen,             \* activation record of create_puzzle
    variant,         \* which program runs the game: "basic" or "enhanced"
    difficulty,      \* SudokuGame.difficulty
    board,           \* SudokuGame.board
    solution,        \* SudokuGame.solution
    initial_board,   \* SudokuGame.initial_board
    selected_cell,   \* SudokuGame.selected_cell: None or <<row, col>>
    hints,           \* SudokuGame.hints
    notes_mode,      \* SudokuGame.notes_mode
    is_game_active,  \* SudokuGame.is_game_active
    error_count,     \* SudokuGame.error_count
    win_animation,   \* SudokuGame.win_animation (enhanced)
    games_played,    \* current_session_stats['games_played'] (enhanced)
    games_won,       \* current_session_stats['games_won'] (enhanced)
    puzzles,         \* what create_puzzle returns, by difficulty and seed
    shares,          \* which of solution, initial_board have board's row lists
    ret              \* the last method called on the game and what it returned

game_vars == <<variant, difficulty, board, solution, initial_board, selected_cell,
               hints, notes_mode, is_game_active, error_count, win_animation,
               games_played, games_won, puzzles, shares, ret>>
vars == <<call, gen, game_vars>>

-----------------------------------------------------------------------------
(* Bounds of the model.                                                    *)

\* Seeds of the random source: one seed fixes every shuffle of one run.
MaxSeed == 1
\* Largest number of cells blanked in an input grid of the function harness.
MaxBlank == 4
\* A whole search (solve_sudoku, count_solutions) is at most 4^RunDepth
\* machine steps, a whole create_puzzle at most 4^GenDepth stages.
RunDepth == 10
GenDepth == 4

-----------------------------------------------------------------------------
(* Values.                                                                 *)

\* Python's None where a cell <<row, col>> may stand.
None == <<>>
Variants == {"basic", "enhanced"}
Difficulties == {"EASY", "MEDIUM", "HARD", "EXPERT"}

\* Difficulty.value in tenths: 0.3, 0.5, 0.7, 0.8.
DifficultyTenths == [EASY |-> 3, MEDIUM |-> 5, HARD |-> 7, EXPERT |-> 8]

Cells == (0..8) \X (0..8)
EmptyBoard == [i \in 0..8 |-> [j \in 0..8 |-> 0]]

\* list(range(1, 10))
Range1To9 == [n \in 1..9 |-> n]

-----------------------------------------------------------------------------
(* The random source.  random.shuffle is drawn from a bounded family: the  *)
(* seed of a run and the number of shuffles already drawn fix the result.  *)

\* The k-th shuffle of list(range(1, 10)) under `seed`: a rotation of the
\* ascending or of the descending list.
Shuffle9(seed, k) ==
    LET rot == (seed * (k + 1)) % 9
        rev == ((seed + k) % 2) = 1
    IN [n \in 1..9 |-> LET m == IF rev THEN 10 - n ELSE n
                       IN ((m - 1 + rot) % 9) + 1]

\* The shuffle of the 81 coordinates [(i, j) for i in range(9) for j in
\* range(9)] under `seed`: a stride through the row-major list.
ShuffleCells(seed) ==
    [t \in 1..81 |-> LET k == ((80 - 3 * seed) * (t - 1) + 80) % 81
                     IN <<k \div 9, k % 9>>]

-----------------------------------------------------------------------------
(* Validator.                                                              *)

\* A slip of the box origin: row % 3 instead of row - row % 3.
is_valid_move_wrong_box(b, row, col, num) ==
    LET start_row == row % 3
        start_col == col % 3
    IN /\ \A x \in 0..8 : b[row][x] # num
       /\ \A x \in 0..8 : b[x][col] # num
       /\ \A i \in 0..2 : \A j \in 0..2 : b[i + start_row][j + start_col] # num

\* The column check dropped.
is_valid_move_no_column(b, row, col, num) ==
    LET start_row == row - (row % 3)
        start_col == col - (col % 3)
    IN /\ \A x \in 0..8 : b[row][x] # num
       /\ \A i \in 0..2 : \A j \in 0..2 : b[i + start_row][j + start_col] # num

is_valid_move(b, row, col, num) ==
    LET start_row == row - (row % 3)
        start_col == col - (col % 3)
    IN /\ \A x \in 0..8 : b[row][x] # num
       /\ \A x \in 0..8 : b[x][col] # num
       /\ \A i \in 0..2 : \A j \in 0..2 : b[i + start_row][j + start_col] # num

\* The scan `for i in range(9): for j in range(9): if board[i][j] == 0` of
\* both searches: the row-major index of the first blank cell, 81 if none.
FirstEmpty(b) ==
    IF \A k \in 0..80 : b[k \div 9][k % 9] # 0 THEN 81
    ELSE CHOOSE k \in 0..80 : /\ b[k \div 9][k % 9] = 0
                              /\ \A m \in 0..(k - 1) : b[m \div 9][m % 9] # 0

-----------------------------------------------------------------------------
(* Solver: solve_sudoku.  A frame holds the cell (i, j) of the call, the   *)
(* list nums its loop runs over and n, how many of them have been tried.   *)

\* The state of a call of solve_sudoku(board) about to start; `draws` is the
\* number of shuffles the random source has served so far.
solve_start(b, draws) ==
    [board |-> b, stack |-> <<>>, pc |-> "call", ok |-> FALSE, draws |-> draws]

\* The final `return False` of an exhausted cell turned into `return True`.
solve_sudoku_step_exhausted_true(v, seed, s) ==
    IF s.pc = "call" THEN
        LET k == FirstEmpty(s.board) IN
        IF k = 81 THEN [s EXCEPT !.ok = TRUE, !.pc = "ret"]
        ELSE [s EXCEPT !.stack = Append(@, [i |-> k \div 9, j |-> k % 9, n |-> 0,
                                            nums |-> IF v = "enhanced"
                                                     THEN Shuffle9(seed, s.draws)
                                                     ELSE Range1To9]),
                       !.draws = IF v = "enhanced" THEN @ + 1 ELSE @,
                       !.pc = "loop"]
    ELSE IF s.pc = "loop" THEN
        LET d == Len(s.stack)
            f == s.stack[d]
        IN IF f.n = 9
           THEN [s EXCEPT !.stack = SubSeq(@, 1, d - 1), !.ok = TRUE, !.pc = "ret"]
           ELSE IF is_valid_move(s.board, f.i, f.j, f.nums[f.n + 1])
                THEN [s EXCEPT !.stack[d].n = @ + 1,
                               !.board[f.i][f.j] = f.nums[f.n + 1],
                               !.pc = "call"]
                ELSE [s EXCEPT !.stack[d].n = @ + 1]
    ELSE IF s.pc = "ret" THEN
        LET d == Len(s.stack) IN
        IF d = 0 THEN [s EXCEPT !.pc = "done"]
        ELSE IF s.ok THEN [s EXCEPT !.stack = SubSeq(@, 1, d - 1)]
        ELSE [s EXCEPT !.board[s.stack[d].i][s.stack[d].j] = 0, !.pc = "loop"]
    ELSE s

\* The un-place `board[i][j] = 0` after a failed recursive call left out.
solve_sudoku_step_no_undo(v, seed, s) ==
    IF s.pc = "call" THEN
        LET k == FirstEmpty(s.board) IN
        IF k = 81 THEN [s EXCEPT !.ok = TRUE, !.pc = "ret"]
        ELSE [s EXCEPT !.stack = Append(@, [i |-> k \div 9, j |-> k % 9, n |-> 0,
                                            nums |-> IF v = "enhanced"
                                                     THEN Shuffle9(seed, s.draws)
                                                     ELSE Range1To9]),
                       !.draws = IF v = "enhanced" THEN @ + 1 ELSE @,
                       !.pc = "loop"]
    ELSE IF s.pc = "loop" THEN
        LET d == Len(s.stack)
            f == s.stack[d]
        IN IF f.n = 9
           THEN [s EXCEPT !.stack = SubSeq(@, 1, d - 1), !.ok = FALSE, !.pc = "ret"]
           ELSE IF is_valid_move(s.board, f.i, f.j, f.nums[f.n + 1])
                THEN [s EXCEPT !.stack[d].n = @ + 1,
                               !.board[f.i][f.j] = f.nums[f.n + 1],
                               !.pc = "call"]
                ELSE [s EXCEPT !.stack[d].n = @ + 1]
    ELSE IF s.pc = "ret" THEN
        LET d == Len(s.stack) IN
        IF d = 0 THEN [s EXCEPT !.pc = "done"]
        ELSE IF s.ok THEN [s EXCEPT !.stack = SubSeq(@, 1, d - 1)]
        ELSE [s EXCEPT !.pc = "loop"]
    ELSE s

\* One step of solve_sudoku in variant v: basic tries 1..9 ascending,
\* enhanced a fresh shuffle per call.
solve_sudoku_step(v, seed, s) ==
    IF s.pc = "call" THEN
        \* the scan for the first blank cell; none left: return True
        LET k == FirstEmpty(s.board) IN
        IF k = 81 THEN [s EXCEPT !.ok = TRUE, !.pc = "ret"]
        ELSE [s EXCEPT !.stack = Append(@, [i |-> k \div 9, j |-> k % 9, n |-> 0,
                                            nums |-> IF v = "enhanced"
                                                     THEN Shuffle9(seed, s.draws)
                                                     ELSE Range1To9]),
                       !.draws = IF v = "enhanced" THEN @ + 1 ELSE @,
                       !.pc = "loop"]
    ELSE IF s.pc = "loop" THEN
        \* `for num in nums`: exhausted: return False; else test and place
        LET d == Len(s.stack)
            f == s.stack[d]
        IN IF f.n = 9
           THEN [s EXCEPT !.stack = SubSeq(@, 1, d - 1), !.ok = FALSE, !.pc = "ret"]
           ELSE IF is_valid_move(s.board, f.i, f.j, f.nums[f.n + 1])
                THEN [s EXCEPT !.stack[d].n = @ + 1,
                               !.board[f.i][f.j] = f.nums[f.n + 1],
                               !.pc = "call"]
                ELSE [s EXCEPT !.stack[d].n = @ + 1]
    ELSE IF s.pc = "ret" THEN
        \* back in the caller: `if self.solve_sudoku(board): return True`,
        \* else `board[i][j] = 0` and on with the loop
        LET d == Len(s.stack) IN
        IF d = 0 THEN [s EXCEPT !.pc = "done"]
        ELSE IF s.ok THEN [s EXCEPT !.stack = SubSeq(@, 1, d - 1)]
        ELSE [s EXCEPT !.board[s.stack[d].i][s.stack[d].j] = 0, !.pc = "loop"]
    ELSE s

\* At most 4^d steps of the call, stopping at "done".
RECURSIVE solve_run(_, _, _, _)
solve_run(v, seed, s, d) ==
    IF s.pc = "done" THEN s
    ELSE IF d = 0 THEN solve_sudoku_step(v, seed, s)
    ELSE LET s1 == solve_run(v, seed, s, d - 1)
             s2 == solve_run(v, seed, s1, d - 1)
             s3 == solve_run(v, seed, s2, d - 1)
         IN IF s1.pc = "done" THEN s1
            ELSE IF s2.pc = "done" THEN s2
            ELSE IF s3.pc = "done" THEN s3
            ELSE solve_run(v, seed, s3, d - 1)

\* The whole call solve_sudoku(board): its final state (pc = "done" when it
\* returned, with .ok the returned boolean and .board the grid as left).
solve_sudoku(v, seed, b, draws) == solve_run(v, seed, solve_start(b, draws), RunDepth)

-----------------------------------------------------------------------------
(* Solution counter: count_solutions and its inner solve_count (enhanced). *)

count_start(b) == [board |-> b, stack |-> <<>>, pc |-> "call", count |-> 0]

\* The early exit `if count[0] > 1: return` left out.
solve_count_step_no_cap(s) ==
    IF s.pc = "call" THEN
        LET k == FirstEmpty(s.board) IN
        IF k = 81 THEN [s EXCEPT !.count = @ + 1, !.pc = "ret"]
        ELSE [s EXCEPT !.stack = Append(@, [i |-> k \div 9, j |-> k % 9, n |-> 0]),
                       !.pc = "loop"]
    ELSE IF s.pc = "loop" THEN
        LET d == Len(s.stack)
            f == s.stack[d]
        IN IF f.n = 9
           THEN [s EXCEPT !.stack = SubSeq(@, 1, d - 1), !.pc = "ret"]
           ELSE IF is_valid_move(s.board, f.i, f.j, f.n + 1)
                THEN [s EXCEPT !.stack[d].n = @ + 1,
                               !.board[f.i][f.j] = f.n + 1,
                               !.pc = "call"]
                ELSE [s EXCEPT !.stack[d].n = @ + 1]
    ELSE IF s.pc = "ret" THEN
        LET d == Len(s.stack) IN
        IF d = 0 THEN [s EXCEPT !.pc = "done"]
        ELSE [s EXCEPT !.board[s.stack[d].i][s.stack[d].j] = 0, !.pc = "loop"]
    ELSE s

\* The digits tried are range(1, 9): 9 is never placed.
solve_count_step_range_1_9(s) ==
    IF s.pc = "call" THEN
        IF s.count > 1 THEN [s EXCEPT !.pc = "ret"]
        ELSE LET k == FirstEmpty(s.board) IN
             IF k = 81 THEN [s EXCEPT !.count = @ + 1, !.pc = "ret"]
             ELSE [s EXCEPT !.stack = Append(@, [i |-> k \div 9, j |-> k % 9, n |-> 0]),
                            !.pc = "loop"]
    ELSE IF s.pc = "loop" THEN
        LET d == Len(s.stack)
            f == s.stack[d]
        IN IF f.n = 8
           THEN [s EXCEPT !.stack = SubSeq(@, 1, d - 1), !.pc = "ret"]
           ELSE IF is_valid_move(s.board, f.i, f.j, f.n + 1)
                THEN [s EXCEPT !.stack[d].n = @ + 1,
                               !.board[f.i][f.j] = f.n + 1,
                               !.pc = "call"]
                ELSE [s EXCEPT !.stack[d].n = @ + 1]
    ELSE IF s.pc = "ret" THEN
        LET d == Len(s.stack) IN
        IF d = 0 THEN [s EXCEPT !.pc = "done"]
        ELSE [s EXCEPT !.board[s.stack[d].i][s.stack[d].j] = 0, !.pc = "loop"]
    ELSE s

\* The un-place `board[i][j] = 0` after the recursive call left out.
solve_count_step_no_undo(s) ==
    IF s.pc = "call" THEN
        IF s.count > 1 THEN [s EXCEPT !.pc = "ret"]
        ELSE LET k == FirstEmpty(s.board) IN
             IF k = 81 THEN [s EXCEPT !.count = @ + 1, !.pc = "ret"]
             ELSE [s EXCEPT !.stack = Append(@, [i |-> k \div 9, j |-> k % 9, n |-> 0]),
                            !.pc = "loop"]
    ELSE IF s.pc = "loop" THEN
        LET d == Len(s.stack)
            f == s.stack[d]
        IN IF f.n = 9
           THEN [s EXCEPT !.stack = SubSeq(@, 1, d - 1), !.pc = "ret"]
           ELSE IF is_valid_move(s.board, f.i, f.j, f.n + 1)
                THEN [s EXCEPT !.stack[d].n = @ + 1,
                               !.board[f.i][f.j] = f.n + 1,
                               !.pc = "call"]
                ELSE [s EXCEPT !.stack[d].n = @ + 1]
    ELSE IF s.pc = "ret" THEN
        LET d == Len(s.stack) IN
        IF d = 0 THEN [s EXCEPT !.pc = "done"]
        ELSE [s EXCEPT !.pc = "loop"]
    ELSE s

\* One step of solve_count(board, count).
solve_count_step(s) ==
    IF s.pc = "call" THEN
        \* `if count[0] > 1: return`, then the scan; no blank: count[0] += 1
        IF s.count > 1 THEN [s EXCEPT !.pc = "ret"]
        ELSE LET k == FirstEmpty(s.board) IN
             IF k = 81 THEN [s EXCEPT !.count = @ + 1, !.pc = "ret"]
             ELSE [s EXCEPT !.stack = Append(@, [i |-> k \div 9, j |-> k % 9, n |-> 0]),
                            !.pc = "loop"]
    ELSE IF s.pc = "loop" THEN
        \* `for num in range(1, 10)`: exhausted: return; else test and place
        LET d == Len(s.stack)
            f == s.stack[d]
        IN IF f.n = 9
           THEN [s EXCEPT !.stack = SubSeq(@, 1, d - 1), !.pc = "ret"]
           ELSE IF is_valid_move(s.board, f.i, f.j, f.n + 1)
                THEN [s EXCEPT !.stack[d].n = @ + 1,
                               !.board[f.i][f.j] = f.n + 1,
                               !.pc = "call"]
                ELSE [s EXCEPT !.stack[d].n = @ + 1]
    ELSE IF s.pc = "ret" THEN
        \* back in the caller: `board[i][j] = 0` and on with the loop
        LET d == Len(s.stack) IN
        IF d = 0 THEN [s EXCEPT !.pc = "done"]
        ELSE [s EXCEPT !.board[s.stack[d].i][s.stack[d].j] = 0, !.pc = "loop"]
    ELSE s

RECURSIVE count_run(_, _)
count_run(s, d) ==
    IF s.pc = "done" THEN s
    ELSE IF d = 0 THEN solve_count_step(s)
    ELSE LET s1 == count_run(s, d - 1)
             s2 == count_run(s1, d - 1)
             s3 == count_run(s2, d - 1)
         IN IF s1.pc = "done" THEN s1
            ELSE IF s2.pc = "done" THEN s2
            ELSE IF s3.pc = "done" THEN s3
            ELSE count_run(s3, d - 1)

\* The whole call count_solutions(board): its final state (.count is the
\* returned number, .board the grid as left).
count_solutions(b) == count_run(count_start(b), RunDepth)

-----------------------------------------------------------------------------
(* Puzzle generator: generate_complete_board and create_puzzle.  The       *)
(* record g is the activation record of one call create_puzzle(difficulty) *)
(* with the locals of both functions: board/complete_board, puzzle,        *)
(* cells_to_remove, cells, removed_count (enhanced), and i, the number of  *)
(* loop iterations started.                                                *)

\* int(81 / difficulty.value): the fraction divided by instead of multiplied.
cells_to_remove_divided(d) == (81 * 10) \div DifficultyTenths[d]

\* int(81 * difficulty.value)
cells_to_remove_of(d) == (81 * DifficultyTenths[d]) \div 10

\* board[box + i][j] written instead of board[box + i][box + j].
seed_diagonal_boxes_first_columns(seed) ==
    [r \in 0..8 |-> [c \in 0..8 |->
        IF c \div 3 = 0
        THEN Shuffle9(seed, r \div 3)[9 - (3 * (r % 3) + (c % 3))]
        ELSE 0]]

\* The three diagonal boxes filled from three shuffles; nums.pop() takes the
\* shuffled list from its end.
seed_diagonal_boxes(seed) ==
    [r \in 0..8 |-> [c \in 0..8 |->
        IF r \div 3 = c \div 3
        THEN Shuffle9(seed, r \div 3)[9 - (3 * (r % 3) + (c % 3))]
        ELSE 0]]

gen_start(v, d, seed) ==
    [pc |-> "start", variant |-> v, difficulty |-> d, seed |-> seed, draws |-> 0,
     complete_board |-> EmptyBoard, puzzle |-> EmptyBoard, cells_to_remove |-> 0,
     cells |-> <<>>, removed_count |-> 0, i |-> 0]

\* The break taken only when removed_count exceeds the target.
loop_exits_off_by_one(g) ==
    IF g.variant = "enhanced"
    THEN g.i = Len(g.cells) \/ g.removed_count > g.cells_to_remove
    ELSE g.i > g.cells_to_remove

\* The removal loop is over: enhanced `for row, col in cells` is exhausted or
\* takes `if removed_count >= cells_to_remove: break`; basic
\* `for i in range(cells_to_remove)` is exhausted.
loop_exits(g) ==
    IF g.variant = "enhanced"
    THEN g.i = Len(g.cells) \/ g.removed_count >= g.cells_to_remove
    ELSE g.i >= g.cells_to_remove

\* The digit put back at (col, row) instead of (row, col).
create_puzzle_visit_restore_swapped(g) ==
    LET row == g.cells[g.i + 1][1]
        col == g.cells[g.i + 1][2]
        temp == g.puzzle[row][col]
        test_board == [g.puzzle EXCEPT ![row][col] = 0]
        solutions == count_solutions(test_board).count
    IN IF solutions = 1
       THEN [g EXCEPT !.puzzle[row][col] = 0, !.removed_count = @ + 1, !.i = @ + 1]
       ELSE [g EXCEPT !.puzzle[row][col] = 0, !.puzzle[col][row] = temp, !.i = @ + 1]

\* One pass of the enhanced removal loop on the next coordinate: remove the
\* cell, count the completions of a copy, keep the removal or put the digit back.
create_puzzle_visit(g) ==
    LET row == g.cells[g.i + 1][1]
        col == g.cells[g.i + 1][2]
        temp == g.puzzle[row][col]
        test_board == [g.puzzle EXCEPT ![row][col] = 0]
        solutions == count_solutions(test_board).count
    IN IF solutions = 1
       THEN [g EXCEPT !.puzzle[row][col] = 0, !.removed_count = @ + 1, !.i = @ + 1]
       ELSE [g EXCEPT !.puzzle[row][col] = temp, !.i = @ + 1]

\* One step of create_puzzle.
create_puzzle_step(g) ==
    IF g.pc = "start" THEN
        \* generate_complete_board: the empty grid, the three diagonal boxes
        [g EXCEPT !.complete_board = seed_diagonal_boxes(g.seed), !.draws = 3,
                  !.pc = "seeded"]
    ELSE IF g.pc = "seeded" THEN
        \* self.solve_sudoku(board); return board.  The boolean is dropped.
        LET r == solve_sudoku(g.variant, g.seed, g.complete_board, g.draws) IN
        IF r.pc = "done"
        THEN [g EXCEPT !.complete_board = r.board, !.draws = r.draws, !.pc = "solved"]
        ELSE g
    ELSE IF g.pc = "solved" THEN
        \* the copy of the grid, the target, the shuffled coordinates
        [g EXCEPT !.puzzle = [row \in 0..8 |-> g.complete_board[row]],
                  !.cells_to_remove = cells_to_remove_of(g.difficulty),
                  !.cells = ShuffleCells(g.seed),
                  !.removed_count = 0, !.i = 0, !.pc = "loop"]
    ELSE IF g.pc = "loop" /\ g.variant = "enhanced" THEN
        IF loop_exits(g) THEN [g EXCEPT !.pc = "done"] ELSE create_puzzle_visit(g)
    ELSE IF g.pc = "loop" THEN
        \* basic: `for i in range(cells_to_remove)`: cells[i] is blanked
        \* unchecked; an index past the list raises IndexError
        IF loop_exits(g) THEN [g EXCEPT !.pc = "done"]
        ELSE IF g.i + 1 > Len(g.cells) THEN [g EXCEPT !.pc = "IndexError"]
        ELSE [g EXCEPT !.puzzle[g.cells[g.i + 1][1]][g.cells[g.i + 1][2]] = 0, !.i = @ + 1]
    ELSE g

RECURSIVE create_puzzle_run(_, _)
create_puzzle_run(g, d) ==
    IF g.pc \in {"done", "IndexError"} THEN g
    ELSE IF d = 0 THEN create_puzzle_step(g)
    ELSE LET g1 == create_puzzle_run(g, d - 1)
             g2 == create_puzzle_run(g1, d - 1)
             g3 == create_puzzle_run(g2, d - 1)
         IN IF g1.pc \in {"done", "IndexError"} THEN g1
            ELSE IF g2.pc \in {"done", "IndexError"} THEN g2
            ELSE IF g3.pc \in {"done", "IndexError"} THEN g3
            ELSE create_puzzle_run(g3, d - 1)

\* The whole call create_puzzle(difficulty) of variant v under `seed`: its
\* final record; at "done" it returns (puzzle, complete_board).
create_puzzle(v, d, seed) == create_puzzle_run(gen_start(v, d, seed), GenDepth)

-----------------------------------------------------------------------------
(* The game object: the methods of SudokuGame on its fields.  The pencil   *)
(* marks (notes), the clock and the colour theme are left out: no method   *)
(* reads them to decide what it writes to the fields modelled here.        *)

MARGIN == 30
CELL_SIZE == 60

\* pygame key codes: K_1..K_9 are consecutive; the others only differ.
K_1 == 49
K_9 == 57
K_BACKSPACE == 8
K_DELETE == 127
K_n == 110

\* The difficulties a game of variant v can be played at here: the basic
\* program never leaves MEDIUM, the sidebar of the enhanced one is clicked on
\* its first two entries.
GameDifficulties(v) == IF v = "enhanced" THEN {"EASY", "MEDIUM"} ELSE {"MEDIUM"}

\* What create_puzzle returns to a game of variant v, by difficulty and seed.
NewPuzzles(v) ==
    [k \in GameDifficulties(v) \X (0..MaxSeed) |->
        LET g == create_puzzle(v, k[1], k[2])
        IN [pc |-> g.pc, puzzle |-> g.puzzle, complete_board |-> g.complete_board]]

\* pygame.Rect(left, top, width, height).collidepoint(pos)
collidepoint(left, top, width, height, pos) ==
    /\ left <= pos[1] /\ pos[1] < left + width
    /\ top <= pos[2] /\ pos[2] < top + height

\* The button draw_buttons puts under pos, None if there is none.
button_at(pos) ==
    IF collidepoint(50, 620, 100, 40, pos) THEN "new_game"
    ELSE IF collidepoint(170, 620, 100, 40, pos) THEN "solve"
    ELSE IF collidepoint(290, 620, 100, 40, pos) THEN "reset"
    ELSE IF collidepoint(410, 620, 100, 40, pos) THEN "hint"
    ELSE "None"

\* check_progress() == 0
is_game_won(b) == \A c \in Cells : b[c[1]][c[2]] # 0

\* A plain assignment in the place of the row-by-row copy: both names then
\* hold the same row lists.
copy_rows_same_lists(name) == {name}

\* [row[:] for row in grid], where `name` is the attribute holding grid: the
\* attributes whose row lists the new grid shares. Every row is a new list.
copy_rows(name) == {}

\* self.board[row][col] = num, seen through every grid that has board's rows.
set_cell(row, col, num) ==
    /\ board' = [board EXCEPT ![row][col] = num]
    /\ solution' = IF "solution" \in shares
                   THEN [solution EXCEPT ![row][col] = num] ELSE solution
    /\ initial_board' = IF "initial_board" \in shares
                        THEN [initial_board EXCEPT ![row][col] = num]
                        ELSE initial_board

\* generate_new_puzzle, with the shuffles of create_puzzle drawn by `seed`.
generate_new_puzzle(seed) ==
    LET g == puzzles[<<difficulty', seed>>] IN
    /\ g.pc = "done"
    /\ board' = g.puzzle
    /\ solution' = g.complete_board
    /\ initial_board' = [row \in 0..8 |-> g.puzzle[row]]
    /\ shares' = copy_rows("solution") \cup copy_rows("initial_board")
    /\ selected_cell' = None
    /\ error_count' = 0
    /\ is_game_active' = TRUE
    /\ hints' = 3
    /\ win_animation' = FALSE
    /\ games_played' = IF variant = "enhanced" THEN games_played + 1 ELSE games_played

\* The hint given although the selected cell is already filled.
get_hint_applies_any_cell ==
    hints > 0 /\ selected_cell # None

\* The hint given although no hint is left.
get_hint_applies_without_hints_left ==
    /\ selected_cell # None
    /\ board[selected_cell[1]][selected_cell[2]] = 0

\* The condition under which get_hint returns True.
get_hint_applies ==
    /\ hints > 0
    /\ selected_cell # None
    /\ board[selected_cell[1]][selected_cell[2]] = 0

\* What get_hint does to board and hints.
get_hint ==
    IF get_hint_applies
    THEN /\ set_cell(selected_cell[1], selected_cell[2],
                     solution[selected_cell[1]][selected_cell[2]])
         /\ hints' = hints - 1
    ELSE UNCHANGED <<board, solution, initial_board, hints>>

\* get_hint as it runs when selected_cell holds sel.
get_hint_at(sel) ==
    IF hints > 0 /\ sel # None /\ board[sel[1]][sel[2]] = 0
    THEN /\ set_cell(sel[1], sel[2], solution[sel[1]][sel[2]])
         /\ hints' = hints - 1
    ELSE UNCHANGED <<board, solution, initial_board, hints>>

-----------------------------------------------------------------------------
(* Grids the properties speak about.                                       *)

Blanks(b) == {c \in Cells : b[c[1]][c[2]] = 0}

\* num is in row `row`, in column `col`, or in the 3x3 box whose cells share
\* row \div 3 and col \div 3 with (row, col).
Occurs(b, row, col, num) ==
    \E c \in Cells :
        /\ b[c[1]][c[2]] = num
        /\ \/ c[1] = row
           \/ c[2] = col
           \/ (c[1] \div 3 = row \div 3 /\ c[2] \div 3 = col \div 3)

\* Two different cells in one row, one column or one box.
SameUnit(c, e) ==
    /\ c # e
    /\ \/ c[1] = e[1]
       \/ c[2] = e[2]
       \/ (c[1] \div 3 = e[1] \div 3 /\ c[2] \div 3 = e[2] \div 3)

\* No two filled cells of one row, column or box hold the same digit.
Consistent(b) ==
    \A c \in Cells, e \in Cells :
        (SameUnit(c, e) /\ b[c[1]][c[2]] # 0) => b[c[1]][c[2]] # b[e[1]][e[2]]

\* Every row, column and box holds each digit 1..9 exactly once.
ValidComplete(b) ==
    /\ \A c \in Cells : b[c[1]][c[2]] \in 1..9
    /\ Consistent(b)

IsGrid(b) == b \in [0..8 -> [0..8 -> 0..9]]

\* The grids G filled up on the cells `todo`, each digit placed where it
\* occurs nowhere else in its row, column and box at the time.
RECURSIVE Extensions(_, _)
Extensions(G, todo) ==
    IF todo = {} THEN G
    ELSE LET c == CHOOSE e \in todo : TRUE
         IN Extensions(UNION {{[g EXCEPT ![c[1]][c[2]] = d] :
                                  d \in {x \in 1..9 : ~Occurs(g, c[1], c[2], x)}} :
                              g \in G},
                       todo \ {c})

\* The complete grids that extend b with every placed digit legal.
Completions(b) == Extensions({b}, Blanks(b))

Min(a, b) == IF a < b THEN a ELSE b

-----------------------------------------------------------------------------
(* Input grids of the function harness.                                    *)

Grid(rows) == [i \in 0..8 |-> [j \in 0..8 |-> rows[i + 1][j + 1]]]

\* A valid complete grid.  Its cells (0,0), (0,1), (4,0), (4,1) hold 9 8 / 8 9:
\* blanking the four leaves two completions.
SampleGrid ==
    Grid(<< <<9, 8, 7, 2, 1, 4, 5, 3, 6>>,
            <<6, 5, 4, 3, 7, 8, 1, 9, 2>>,
            <<3, 2, 1, 6, 9, 5, 4, 7, 8>>,
            <<4, 7, 5, 1, 2, 3, 8, 6, 9>>,
            <<8, 9, 2, 4, 5, 6, 7, 1, 3>>,
            <<1, 3, 6, 7, 8, 9, 2, 4, 5>>,
            <<2, 4, 3, 5, 6, 1, 9, 8, 7>>,
            <<7, 1, 8, 9, 3, 2, 6, 5, 4>>,
            <<5, 6, 9, 8, 4, 7, 3, 2, 1>> >>)

Transposed(b) == [i \in 0..8 |-> [j \in 0..8 |-> b[j][i]]]
CompleteGrids == {SampleGrid, Transposed(SampleGrid)}

Blanked(b, S) == [i \in 0..8 |-> [j \in 0..8 |-> IF <<i, j>> \in S THEN 0 ELSE b[i][j]]]

\* The cells blanked in input grids, in any combination of at most n.
PoolCells == {<<0, 0>>, <<0, 1>>, <<4, 0>>, <<4, 1>>, <<8, 2>>, <<4, 4>>}
PartialBoards(n) ==
    {Blanked(SampleGrid, S) : S \in {T \in SUBSET PoolCells : Cardinality(T) <= n}}

\* The same with cell (0, 2) overwritten by any digit: grids whose givens
\* repeat a digit, and grids with lawful givens and no completion (9 at
\* (0, 2) with (0, 0) and (8, 2) blank).
OverwrittenBoards(n) == {[b EXCEPT ![0][2] = d] : b \in PartialBoards(n), d \in 1..9}

\* A complete grid with exactly one cell blanked.
SingleBlankBoards == {Blanked(g, {c}) : g \in CompleteGrids, c \in Cells}

SearchBoards ==
    {EmptyBoard} \cup PartialBoards(MaxBlank) \cup OverwrittenBoards(MaxBlank)
                 \cup SingleBlankBoards

ValidatorBoards ==
    {EmptyBoard} \cup PartialBoards(1) \cup {[SampleGrid EXCEPT ![0][2] = d] : d \in 1..9}

\* Cells where the harness places the digit before it asks the validator.
PlacedCells == {<<0, 0>>, <<4, 4>>, <<8, 2>>}

-----------------------------------------------------------------------------
(* The function harness: one call of is_valid_move, count_solutions or     *)
(* solve_sudoku on drawn arguments.                                        *)

NoResult == [pc |-> "none"]

CallRecord(fn, v, seed, b, row, col, num, placed) ==
    [fn |-> fn, variant |-> v, seed |-> seed, board |-> b, row |-> row, col |-> col,
     num |-> num, placed |-> placed, pc |-> "ready", result |-> NoResult]

CallInit ==
    call \in
        {CallRecord("is_valid_move", "basic", 0,
                    IF p = None THEN b ELSE [b EXCEPT ![p[1]][p[2]] = num],
                    c[1], c[2], num, p) :
            b \in ValidatorBoards, c \in Cells, num \in 1..9,
            p \in {None} \cup PlacedCells}
        \cup {CallRecord("count_solutions", "enhanced", 0, b, 0, 0, 0, None) :
                b \in SearchBoards}
        \cup {CallRecord("solve_sudoku", "basic", 0, b, 0, 0, 0, None) :
                b \in SearchBoards}
        \cup {CallRecord("solve_sudoku", "enhanced", seed, b, 0, 0, 0, None) :
                b \in SearchBoards, seed \in 0..MaxSeed}

Idle == [pc |-> "idle"]

\* The fields of SudokuGame before __init__ has generated the first puzzle.
GameUnbuilt ==
    /\ variant = "basic"
    /\ difficulty = "MEDIUM"
    /\ board = EmptyBoard
    /\ solution = EmptyBoard
    /\ initial_board = EmptyBoard
    /\ selected_cell = None
    /\ hints = 3
    /\ notes_mode = FALSE
    /\ is_game_active = FALSE
    /\ error_count = 0
    /\ win_animation = FALSE
    /\ games_played = 0
    /\ games_won = 0
    /\ puzzles = None
    /\ shares = {}
    /\ ret = [method |-> "none", value |-> "None"]

InitCall == CallInit /\ gen = Idle /\ GameUnbuilt

CallIsValidMove ==
    /\ call.pc = "ready" /\ call.fn = "is_valid_move"
    /\ call' = [call EXCEPT !.pc = "returned",
                            !.result = is_valid_move(call.board, call.row, call.col, call.num)]
    /\ UNCHANGED <<gen, game_vars>>

CallCountSolutions ==
    /\ call.pc = "ready" /\ call.fn = "count_solutions"
    /\ call' = [call EXCEPT !.pc = "returned", !.result = count_solutions(call.board)]
    /\ UNCHANGED <<gen, game_vars>>

CallSolveSudoku ==
    /\ call.pc = "ready" /\ call.fn = "solve_sudoku"
    /\ call' = [call EXCEPT !.pc = "returned",
                            !.result = solve_sudoku(call.variant, call.seed, call.board, 0)]
    /\ UNCHANGED <<gen, game_vars>>

NextCall == CallIsValidMove \/ CallCountSolutions \/ CallSolveSudoku

SpecCall == InitCall /\ [][NextCall]_vars

-----------------------------------------------------------------------------
(* Properties of the functions.                                            *)

\* C4: is_valid_move(board, row, col, num) is False exactly when num occurs
\* in the row, the column or the 3x3 box of (row, col); in particular, with
\* num just placed at another cell of the same row, column or box it is False.
C4_ValidatorExact ==
    (call.fn = "is_valid_move" /\ call.pc = "returned") =>
        /\ call.result = ~Occurs(call.board, call.row, call.col, call.num)
        /\ (call.placed # None /\ SameUnit(call.placed, <<call.row, call.col>>))
              => call.result = FALSE

\* A digit placed in the box of the asked cell, in another row and column,
\* and refused.
C4_Witness ==
    /\ call.fn = "is_valid_move" /\ call.pc = "returned"
    /\ call.placed = <<4, 4>> /\ call.row = 3 /\ call.col = 5
    /\ call.board[3][5] = 0
    /\ call.result = FALSE

\* C5: count_solutions returns min(N, 2), N the number of completions of the
\* grid with every placed digit legal; the result is 0, 1 or 2, and 2 for the
\* all-blank grid.
C5_CountIsCappedN ==
    (call.fn = "count_solutions" /\ call.pc = "returned") =>
        /\ call.result.pc = "done"
        /\ call.result.count \in {0, 1, 2}
        /\ call.board = EmptyBoard => call.result.count = 2
        /\ Cardinality(Blanks(call.board)) <= MaxBlank
              => call.result.count = Min(Cardinality(Completions(call.board)), 2)

\* A grid with exactly two completions, counted as 2.
C5_Witness ==
    /\ call.fn = "count_solutions" /\ call.pc = "returned"
    /\ call.board = Blanked(SampleGrid, {<<0, 0>>, <<0, 1>>, <<4, 0>>, <<4, 1>>})
    /\ Cardinality(Completions(call.board)) = 2
    /\ call.result.count = 2

\* C6: on a grid whose filled cells break no row, column or box constraint,
\* solve_sudoku terminates; True comes with the grid complete and valid,
\* False only when the input has no completion.
C6_SolveSoundComplete ==
    (call.fn = "solve_sudoku" /\ call.pc = "returned" /\ Consistent(call.board)) =>
        /\ call.result.pc = "done"
        /\ call.result.ok => ValidComplete(call.result.board)
        /\ ~call.result.ok => Completions(call.board) = {}

\* Lawful givens without a completion: the search returned False.
C6_Witness ==
    /\ call.fn = "solve_sudoku" /\ call.pc = "returned"
    /\ Consistent(call.board)
    /\ call.board = [Blanked(SampleGrid, {<<0, 0>>, <<8, 2>>}) EXCEPT ![0][2] = 9]
    /\ call.result.pc = "done"
    /\ ~call.result.ok

\* C9: a valid complete grid with exactly one cell blanked has count 1.
C9_SingleBlankUnique ==
    (/\ call.fn = "count_solutions" /\ call.pc = "returned"
     /\ \E g \in CompleteGrids, c \in Cells : call.board = Blanked(g, {c}))
        => call.result.count = 1

C9_Witness ==
    /\ call.fn = "count_solutions" /\ call.pc = "returned"
    /\ call.board = Blanked(Transposed(SampleGrid), {<<7, 3>>})
    /\ ValidComplete(Transposed(SampleGrid))
    /\ call.result.count = 1

-----------------------------------------------------------------------------
(* The two searches, step by step: one call of count_solutions or of       *)
(* solve_sudoku, advanced one machine step at a time until it returns.     *)

\* The grids searched step by step: the empty grid, the sample grid with
\* cells blanked, the same with a given overwritten, and seeded grids.
StepBoards ==
    {EmptyBoard} \cup PartialBoards(MaxBlank) \cup OverwrittenBoards(2)
                 \cup {seed_diagonal_boxes(seed) : seed \in 0..MaxSeed}

StepCall(fn, v, seed, b) ==
    [CallRecord(fn, v, seed, b, 0, 0, 0, None) EXCEPT
        !.pc = "running",
        !.result = IF fn = "count_solutions" THEN count_start(b) ELSE solve_start(b, 0)]

InitStep ==
    /\ call \in {StepCall("count_solutions", "enhanced", 0, b) : b \in StepBoards}
                \cup {StepCall("solve_sudoku", "basic", 0, b) : b \in StepBoards}
                \cup {StepCall("solve_sudoku", "enhanced", seed, b) :
                         b \in StepBoards, seed \in 0..MaxSeed}
    /\ gen = Idle
    /\ GameUnbuilt

StepCount ==
    /\ call.pc = "running" /\ call.fn = "count_solutions"
    /\ call.result.pc # "done"
    /\ call' = [call EXCEPT !.result = solve_count_step(call.result)]
    /\ UNCHANGED <<gen, game_vars>>

StepSolve ==
    /\ call.pc = "running" /\ call.fn = "solve_sudoku"
    /\ call.result.pc # "done"
    /\ call' = [call EXCEPT !.result = solve_sudoku_step(call.variant, call.seed, call.result)]
    /\ UNCHANGED <<gen, game_vars>>

StepReturn ==
    /\ call.pc = "running"
    /\ call.result.pc = "done"
    /\ call' = [call EXCEPT !.pc = "returned"]
    /\ UNCHANGED <<gen, game_vars>>

NextStep == StepCount \/ StepSolve \/ StepReturn

SpecStep == InitStep /\ [][NextStep]_vars

\* C12: once the counter of count_solutions has reached 2 it is never
\* incremented again and no digit is placed into the grid any more.
C12_NoWorkAfterCap ==
    [][(call.pc = "running" /\ call.fn = "count_solutions" /\ call.result.count >= 2) =>
          /\ call'.result.count = call.result.count
          /\ \A c \in Cells : call.result.board[c[1]][c[2]] = 0
                                 => call'.result.board[c[1]][c[2]] = 0]_vars

\* C14: solve_sudoku never changes a cell that is filled in its input, and
\* when it returns False the grid equals the input grid.
C14_SolveFrame ==
    (call.pc \in {"running", "returned"} /\ call.fn = "solve_sudoku") =>
        /\ \A c \in Cells : call.board[c[1]][c[2]] # 0
                               => call.result.board[c[1]][c[2]] = call.board[c[1]][c[2]]
        /\ (call.result.pc = "done" /\ ~call.result.ok) => call.result.board = call.board

\* A search that placed digits (it entered a second cell), failed and left
\* the grid as it was given.
C14_Witness ==
    /\ call.pc = "returned" /\ call.fn = "solve_sudoku" /\ call.variant = "enhanced"
    /\ ~call.result.ok
    /\ call.result.draws >= 2
    /\ call.result.board = call.board

-----------------------------------------------------------------------------
(* The generator, step by step.                                            *)

InitGen ==
    /\ gen \in {gen_start(v, d, seed) : v \in Variants, d \in Difficulties,
                                        seed \in 0..MaxSeed}
    /\ call = Idle
    /\ GameUnbuilt

GenSeedBoxes ==
    /\ gen.pc = "start"
    /\ gen' = create_puzzle_step(gen)
    /\ UNCHANGED <<call, game_vars>>

\* Enabled when the search returns.
GenSolve ==
    /\ gen.pc = "seeded"
    /\ gen' = create_puzzle_step(gen)
    /\ gen'.pc = "solved"
    /\ UNCHANGED <<call, game_vars>>

GenPrepare ==
    /\ gen.pc = "solved"
    /\ gen' = create_puzzle_step(gen)
    /\ UNCHANGED <<call, game_vars>>

\* One iteration of the removal loop.
GenVisit ==
    /\ gen.pc = "loop"
    /\ ~loop_exits(gen)
    /\ gen' = create_puzzle_step(gen)
    /\ UNCHANGED <<call, game_vars>>

\* The loop is left and the pair returned.
GenReturn ==
    /\ gen.pc = "loop"
    /\ loop_exits(gen)
    /\ gen' = create_puzzle_step(gen)
    /\ UNCHANGED <<call, game_vars>>

NextGen == GenSeedBoxes \/ GenSolve \/ GenPrepare \/ GenVisit \/ GenReturn

SpecGen == InitGen /\ [][NextGen]_vars

\* The searches step by step together with the generator.
InitStepGen == InitStep \/ InitGen
NextStepGen == NextStep \/ NextGen
SpecStepGen == InitStepGen /\ [][NextStepGen]_vars

\* C15: when count_solutions returns, the grid it was given is as it was at
\* the call, also when the count reached 2; and a visit of the removal loop
\* changes the working puzzle at the visited cell only, the counting having
\* run on a copy that it leaves as it got it.
C15_CountRestoresGrid ==
    [][/\ (call'.pc = "running" /\ call'.fn = "count_solutions" /\ call'.result.pc = "done")
             => call'.result.board = call'.board
       /\ (gen.pc = "loop" /\ gen.variant = "enhanced" /\ gen'.pc = "loop") =>
             LET row == gen.cells[gen.i + 1][1]
                 col == gen.cells[gen.i + 1][2]
                 test_board == [gen.puzzle EXCEPT ![row][col] = 0]
             IN /\ count_solutions(test_board).board = test_board
                /\ \A c \in Cells : c # <<row, col>>
                                       => gen'.puzzle[c[1]][c[2]] = gen.puzzle[c[1]][c[2]]
                /\ gen'.puzzle[row][col] \in {0, gen.puzzle[row][col]}]_vars

\* The count of the empty grid returned at the cap with the grid empty again.
C15_Witness ==
    /\ call.pc = "returned" /\ call.fn = "count_solutions"
    /\ call.board = EmptyBoard
    /\ call.result.count = 2
    /\ call.result.board = EmptyBoard

\* C1: the returned puzzle has exactly one completion and the ascending
\* solve_sudoku on a copy of it reproduces the solution cell for cell, in
\* both variants.
C1_UniqueAndReproduced ==
    gen.pc = "done" =>
        /\ count_solutions(gen.puzzle).count = 1
        /\ solve_sudoku("basic", 0, gen.puzzle, 0).board = gen.complete_board

\* C2: the solution grid has no blank cell and every row, column and box
\* holds each digit 1..9 exactly once.
C2_SolutionValidComplete ==
    gen.pc \in {"solved", "loop", "done"} => ValidComplete(gen.complete_board)

C2_Witness ==
    /\ gen.pc = "done" /\ gen.variant = "enhanced" /\ gen.seed = 1
    /\ ValidComplete(gen.complete_board)

\* C3: every non-zero cell of the puzzle equals the solution's cell, at
\* every point of the removal loop and in the returned pair.
C3_PuzzleSubsetOfSolution ==
    gen.pc \in {"loop", "done"} =>
        \A c \in Cells : gen.puzzle[c[1]][c[2]] # 0
                            => gen.puzzle[c[1]][c[2]] = gen.complete_board[c[1]][c[2]]

\* A visit put its digit back: fewer blanks than cells visited.
C3_Witness ==
    /\ gen.pc = "loop" /\ gen.variant = "enhanced"
    /\ gen.removed_count < gen.i
    /\ Cardinality(Blanks(gen.puzzle)) = gen.removed_count
    /\ \E c \in Cells : gen.puzzle[c[1]][c[2]] # 0

\* How far a run is from its return: the stages left, then the coordinates
\* not yet visited.
Rank(g) ==
    IF g.pc = "start" THEN 400
    ELSE IF g.pc = "seeded" THEN 300
    ELSE IF g.pc = "solved" THEN 200
    ELSE IF g.pc = "loop" THEN 100 - g.i
    ELSE 0

\* C7: create_puzzle returns a pair of grids for every difficulty and every
\* drawn shuffle: no run raises, and before the return there always is a
\* next step, which brings the return nearer.
C7_AlwaysReturns ==
    /\ gen.pc # "IndexError"
    /\ gen.pc # "done" =>
          LET next == create_puzzle_step(gen)
          IN next # gen /\ Rank(next) < Rank(gen) /\ Rank(next) >= 0
    /\ gen.pc = "done" => IsGrid(gen.puzzle) /\ IsGrid(gen.complete_board)

C7_Witness ==
    /\ gen.pc = "done" /\ gen.difficulty = "EXPERT"
    /\ IsGrid(gen.puzzle) /\ IsGrid(gen.complete_board)

\* C10: the returned puzzle has at most target = floor(81 * value) blanks;
\* the loop ends only with the removed count at the target or with all 81
\* coordinates visited once each; the blank count is the removed count.
C10_BlanksWithinTarget ==
    gen.pc = "done" =>
        LET removed == IF gen.variant = "enhanced" THEN gen.removed_count ELSE gen.i IN
        /\ gen.cells_to_remove = (81 * DifficultyTenths[gen.difficulty]) \div 10
        /\ Cardinality(Blanks(gen.puzzle)) <= gen.cells_to_remove
        /\ Cardinality(Blanks(gen.puzzle)) = removed
        /\ \/ removed = gen.cells_to_remove
           \/ /\ gen.i = 81
              /\ {gen.cells[t] : t \in 1..gen.i} = Cells

\* A run that fell short of its target after visiting all 81 coordinates.
C10_Witness ==
    /\ gen.pc = "done" /\ gen.variant = "enhanced"
    /\ gen.i = 81
    /\ gen.removed_count < gen.cells_to_remove
    /\ Cardinality(Blanks(gen.puzzle)) = gen.removed_count

\* C11: a visit of the removal loop leaves the visited cell blank and adds 1
\* to removed_count exactly when the puzzle with that cell blanked counts one
\* completion; otherwise the puzzle and removed_count are as before the visit.
\* So the puzzle has exactly one completion after every visit.  Both variants.
C11_VisitKeepsUnique ==
    [][(gen.pc = "loop" /\ gen'.pc = "loop" /\ gen'.i = gen.i + 1) =>
          LET row == gen.cells[gen.i + 1][1]
              col == gen.cells[gen.i + 1][2]
              blanked == [gen.puzzle EXCEPT ![row][col] = 0]
          IN /\ IF count_solutions(blanked).count = 1
                THEN /\ gen'.puzzle = blanked
                     /\ gen.variant = "enhanced" => gen'.removed_count = gen.removed_count + 1
                ELSE /\ gen'.puzzle = gen.puzzle
                     /\ gen'.removed_count = gen.removed_count
             /\ count_solutions(gen'.puzzle).count = 1]_vars

\* C13: after the seeding of generate_complete_board the three diagonal boxes
\* hold each digit 1..9 exactly once, the other 54 cells are empty, and no
\* row, column or box repeats a digit.
C13_SeededBoxesLegal ==
    gen.pc = "seeded" =>
        /\ \A k \in 0..2 : \A d \in 1..9 :
              Cardinality({c \in Cells : /\ c[1] \div 3 = k /\ c[2] \div 3 = k
                                         /\ gen.complete_board[c[1]][c[2]] = d}) = 1
        /\ Cardinality(Blanks(gen.complete_board)) = 54
        /\ \A c \in Cells : c[1] \div 3 # c[2] \div 3 => gen.complete_board[c[1]][c[2]] = 0
        /\ Consistent(gen.complete_board)

\* The seeded grid of a reversed, rotated shuffle.
C13_Witness ==
    /\ gen.pc = "seeded" /\ gen.seed = 1
    /\ gen.complete_board[0][1] # gen.complete_board[3][4]
    /\ Cardinality(Blanks(gen.complete_board)) = 54

\* C17: int(81 * difficulty.value) is 24, 40, 56 and 64 for EASY, MEDIUM,
\* HARD and EXPERT: non-decreasing in that order and at most 65.
C17_TargetsFloor ==
    gen.pc \in {"loop", "done"} =>
        /\ gen.cells_to_remove =
              [EASY |-> 24, MEDIUM |-> 40, HARD |-> 56, EXPERT |-> 64][gen.difficulty]
        /\ gen.cells_to_remove <= 65
        /\ cells_to_remove_of("EASY") <= cells_to_remove_of("MEDIUM")
        /\ cells_to_remove_of("MEDIUM") <= cells_to_remove_of("HARD")
        /\ cells_to_remove_of("HARD") <= cells_to_remove_of("EXPERT")

\* The removal loop of an EXPERT puzzle running on its target of 64.
C17_Witness ==
    /\ gen.pc = "loop" /\ gen.difficulty = "EXPERT"
    /\ gen.cells_to_remove = 64
    /\ gen.i > 0

-----------------------------------------------------------------------------
(* The game: the methods of SudokuGame called in any order, after __init__ *)
(* has generated the first puzzle.                                         *)

\* Session counters stop here.
MaxGames == 2
MaxErrors == 1

\* Where the mouse clicks when handle_click is called alone: the centres of
\* three cells and a point off the grid.
CellClickPositions ==
    {<<MARGIN + 60 * c + 30, MARGIN + 60 * r + 30>> :
        <<r, c>> \in {<<8, 8>>, <<8, 7>>, <<0, 0>>}}
    \cup {<<590, 600>>}

\* Where the mouse clicks: those, the centres of the four buttons and of two
\* sidebar entries.
ClickPositions ==
    CellClickPositions
    \cup {<<100, 640>>, <<220, 640>>, <<340, 640>>, <<460, 640>>}
    \cup {<<680, 467>>, <<680, 512>>}

Keys == (K_1..K_9) \cup {K_DELETE, K_BACKSPACE, K_n}

Init == call = Idle /\ gen = Idle /\ GameUnbuilt

\* run_sudoku.main starts the chosen program: from here on the random source
\* is fixed, and with it what create_puzzle returns.
Launch ==
    /\ puzzles = None
    /\ \E v \in Variants : variant' = v /\ puzzles' = NewPuzzles(v)
    /\ ret' = [method |-> "main", value |-> "None"]
    /\ UNCHANGED <<call, gen, difficulty, board, solution, initial_board, selected_cell,
                   hints, notes_mode, is_game_active, error_count, win_animation,
                   games_played, games_won, shares>>

\* SudokuGame.__init__: its last statement is generate_new_puzzle().
Construct ==
    /\ ret.method = "main"
    /\ difficulty' = "MEDIUM"
    /\ \E seed \in 0..MaxSeed : generate_new_puzzle(seed)
    /\ notes_mode' = FALSE
    /\ games_won' = 0
    /\ ret' = [method |-> "__init__", value |-> "None"]
    /\ UNCHANGED <<call, gen, variant, puzzles>>

\* The game object exists.
Built == ret.method \notin {"none", "main"}

GenerateNewPuzzle ==
    /\ Built
    /\ games_played < MaxGames
    /\ UNCHANGED difficulty
    /\ \E seed \in 0..MaxSeed : generate_new_puzzle(seed)
    /\ ret' = [method |-> "generate_new_puzzle", value |-> "None"]
    /\ UNCHANGED <<call, gen, variant, notes_mode, games_won, puzzles>>

GetHint ==
    /\ Built
    /\ get_hint
    /\ ret' = [method |-> "get_hint",
               value |-> IF get_hint_applies THEN "True" ELSE "False"]
    /\ UNCHANGED <<call, gen, variant, difficulty, selected_cell,
                   notes_mode, is_game_active, error_count, win_animation,
                   games_played, games_won, puzzles, shares>>

\* The clicked cell selected whether or not it is a given.
handle_click_selects_givens(pos) ==
    IF /\ MARGIN <= pos[1] /\ pos[1] < MARGIN + 9 * CELL_SIZE
       /\ MARGIN <= pos[2] /\ pos[2] < MARGIN + 9 * CELL_SIZE
    THEN <<(pos[2] - MARGIN) \div CELL_SIZE, (pos[1] - MARGIN) \div CELL_SIZE>>
    ELSE None

\* What handle_click(pos) leaves in selected_cell.
handle_click(pos) ==
    IF /\ MARGIN <= pos[1] /\ pos[1] < MARGIN + 9 * CELL_SIZE
       /\ MARGIN <= pos[2] /\ pos[2] < MARGIN + 9 * CELL_SIZE
    THEN LET col == (pos[1] - MARGIN) \div CELL_SIZE
             row == (pos[2] - MARGIN) \div CELL_SIZE
         IN IF initial_board[row][col] = 0 THEN <<row, col>> ELSE None
    ELSE None

HandleClick ==
    \E pos \in CellClickPositions :
        /\ Built
        /\ selected_cell' = handle_click(pos)
        /\ ret' = [method |-> "handle_click", value |-> "None"]
        /\ UNCHANGED <<call, gen, variant, difficulty, board, solution, initial_board,
                       hints, notes_mode, is_game_active, error_count, win_animation,
                       games_played, games_won, puzzles, shares>>

\* The typed digit written whether or not it is the solution's.
HandleDigitKey_writes_any_digit(key) ==
    IF initial_board[selected_cell[1]][selected_cell[2]] # 0 \/ notes_mode
    THEN UNCHANGED <<board, solution, initial_board, error_count, win_animation,
                     is_game_active, games_won>>
    ELSE /\ set_cell(selected_cell[1], selected_cell[2], key - K_1 + 1)
         /\ UNCHANGED <<error_count, win_animation, is_game_active, games_won>>

\* handle_key for a digit key: in notes mode it toggles a note and leaves the
\* grids alone.
HandleDigitKey(key) ==
    LET row == selected_cell[1]
        col == selected_cell[2]
        num == key - K_1 + 1
    IN IF initial_board[row][col] # 0 \/ notes_mode
       THEN UNCHANGED <<board, solution, initial_board, error_count, win_animation,
                        is_game_active, games_won>>
       ELSE IF solution[row][col] = num
       THEN /\ set_cell(row, col, num)
            /\ IF variant = "enhanced" /\ is_game_won(board')
               THEN /\ win_animation' = TRUE
                    /\ is_game_active' = FALSE
                    /\ games_won' = games_won + 1
               ELSE UNCHANGED <<win_animation, is_game_active, games_won>>
            /\ UNCHANGED error_count
       ELSE /\ error_count' = error_count + 1
            /\ UNCHANGED <<board, solution, initial_board, win_animation,
                           is_game_active, games_won>>

\* handle_key(key); the session counters stop at their bounds.
handle_key(key) ==
    /\ error_count < MaxErrors \/ key \notin K_1..K_9
    /\ games_won < MaxGames
    /\ IF selected_cell = None
       THEN UNCHANGED <<board, solution, initial_board, error_count, win_animation,
                        is_game_active, games_won, notes_mode>>
       ELSE IF K_1 <= key /\ key <= K_9
       THEN HandleDigitKey(key) /\ UNCHANGED notes_mode
       ELSE IF key \in {K_DELETE, K_BACKSPACE}
       THEN /\ IF initial_board[selected_cell[1]][selected_cell[2]] = 0
               THEN set_cell(selected_cell[1], selected_cell[2], 0)
               ELSE UNCHANGED <<board, solution, initial_board>>
            /\ UNCHANGED <<error_count, win_animation, is_game_active, games_won,
                           notes_mode>>
       ELSE /\ notes_mode' = ~notes_mode
            /\ UNCHANGED <<board, solution, initial_board, error_count,
                           win_animation, is_game_active, games_won>>

HandleKey ==
    \E key \in Keys :
        /\ Built
        /\ handle_key(key)
        /\ ret' = [method |-> "handle_key", value |-> "None"]
        /\ UNCHANGED <<call, gen, variant, difficulty, selected_cell, hints,
                       games_played, puzzles, shares>>

\* The branch handle_button_click takes for the button `action`, entered with
\* selected_cell holding sel; the session counters stop at their bounds.
handle_button_click(action, sel) ==
    IF action = "new_game"
    THEN /\ games_played < MaxGames
         /\ UNCHANGED difficulty
         /\ \E seed \in 0..MaxSeed : generate_new_puzzle(seed)
         /\ UNCHANGED games_won
    ELSE IF action = "solve"
    THEN /\ games_won < MaxGames
         /\ board' = [row \in 0..8 |-> solution[row]]
         /\ shares' = copy_rows("solution")
         /\ is_game_active' = FALSE
         /\ games_won' = IF variant = "enhanced" THEN games_won + 1 ELSE games_won
         /\ selected_cell' = sel
         /\ UNCHANGED <<difficulty, solution, initial_board, hints,
                        error_count, win_animation, games_played>>
    ELSE IF action = "reset"
    THEN /\ board' = [row \in 0..8 |-> initial_board[row]]
         /\ shares' = copy_rows("initial_board")
         /\ error_count' = 0
         /\ is_game_active' = TRUE
         /\ hints' = 3
         /\ selected_cell' = sel
         /\ UNCHANGED <<difficulty, solution, initial_board,
                        win_animation, games_played, games_won>>
    ELSE /\ get_hint_at(sel)
         /\ selected_cell' = sel
         /\ UNCHANGED <<difficulty, is_game_active, error_count,
                        win_animation, games_played, games_won, shares>>

HandleButtonClick ==
    \E pos \in ClickPositions :
        LET action == button_at(pos) IN
        /\ Built
        /\ action # "None"
        /\ handle_button_click(action, selected_cell)
        /\ ret' = [method |-> "handle_button_click", value |-> "None",
                   action |-> action]
        /\ UNCHANGED <<call, gen, variant, notes_mode, puzzles>>

\* The difficulty whose sidebar entry is under pos, None if there is none.
sidebar_at(pos) ==
    IF pos[1] < 600 THEN "None"
    ELSE IF collidepoint(620, 450, 120, 35, pos) THEN "EASY"
    ELSE IF collidepoint(620, 495, 120, 35, pos) THEN "MEDIUM"
    ELSE IF collidepoint(620, 540, 120, 35, pos) THEN "HARD"
    ELSE IF collidepoint(620, 585, 120, 35, pos) THEN "EXPERT"
    ELSE "None"

HandleSidebarClick ==
    \E pos \in ClickPositions :
        /\ Built
        /\ variant = "enhanced"
        /\ sidebar_at(pos) # "None"
        /\ games_played < MaxGames
        /\ difficulty' = sidebar_at(pos)
        /\ \E seed \in 0..MaxSeed : generate_new_puzzle(seed)
        /\ ret' = [method |-> "handle_sidebar_click", value |-> "None"]
        /\ UNCHANGED <<call, gen, variant, notes_mode, games_won, puzzles>>

Next ==
    \/ Launch
    \/ Construct
    \/ GetHint
    \/ HandleClick
    \/ HandleKey
    \/ HandleButtonClick
    \/ HandleSidebarClick

Spec == Init /\ [][Next]_vars

-----------------------------------------------------------------------------
(* Claims about the game.                                                  *)

\* C8: a call of get_hint with hints left and a selected cell that is blank on
\* the board writes the solution's digit there, takes exactly one hint and
\* returns True; any other call returns False and leaves board and hints alone.
C8_GetHintContract ==
    [][ret'.method = "get_hint" =>
          IF /\ hints > 0
             /\ selected_cell # None
             /\ board[selected_cell[1]][selected_cell[2]] = 0
          THEN /\ board' = [board EXCEPT ![selected_cell[1]][selected_cell[2]] =
                                              solution[selected_cell[1]][selected_cell[2]]]
               /\ hints' = hints - 1
               /\ ret'.value = "True"
          ELSE /\ board' = board
               /\ hints' = hints
               /\ ret'.value = "False"]_vars

\* A hint has just filled the selected cell, and it was not the first one.
C8_Witness ==
    /\ ret = [method |-> "get_hint", value |-> "True"]
    /\ hints < 2
    /\ selected_cell # None
    /\ initial_board[selected_cell[1]][selected_cell[2]] = 0
    /\ board[selected_cell[1]][selected_cell[2]] =
          solution[selected_cell[1]][selected_cell[2]]

\* C16: a step of handle_key, of get_hint or of a button other than New Game
\* leaves solution and initial_board as they were, and board shares no row
\* list with either of them.
C16_PlayerKeepsSolutionAndGivens ==
    [][(\/ ret'.method \in {"handle_key", "get_hint"}
        \/ ret'.method = "handle_button_click" /\ ret'.action # "new_game")
       => /\ solution' = solution
          /\ initial_board' = initial_board
          /\ shares' = {}]_vars

\* A key has just been handled on a board that differs from both other grids.
C16_Witness ==
    /\ ret.method = "handle_key"
    /\ selected_cell # None
    /\ board[selected_cell[1]][selected_cell[2]] # 0
    /\ board # initial_board
    /\ board # solution

\* C20: once the game is built, every filled cell of board holds the digit of
\* solution at the same position.
C20_BoardAgreesWithSolution ==
    Built => \A c \in Cells :
                board[c[1]][c[2]] # 0 => board[c[1]][c[2]] = solution[c[1]][c[2]]

\* A wrong digit has been refused on a board where the player has filled a cell.
C20_Witness ==
    /\ ret.method = "handle_key"
    /\ error_count > 0
    /\ selected_cell # None
    /\ board[selected_cell[1]][selected_cell[2]] = 0
    /\ \E c \in Cells : initial_board[c[1]][c[2]] = 0 /\ board[c[1]][c[2]] # 0

\* C21: once the game is built, every given cell holds its given digit on
\* board, and selected_cell is None or a cell that is not a given.
C21_GivensKeptAndNeverSelected ==
    Built =>
        /\ \A c \in Cells :
              initial_board[c[1]][c[2]] # 0 => board[c[1]][c[2]] = initial_board[c[1]][c[2]]
        /\ \/ selected_cell = None
           \/ initial_board[selected_cell[1]][selected_cell[2]] = 0

\* A click has just left nothing selected, on a board the player has written
\* to and where one of the cells that are clicked is a given.
C21_Witness ==
    /\ ret.method = "handle_click"
    /\ selected_cell = None
    /\ board # initial_board
    /\ \E pos \in ClickPositions :
          /\ MARGIN <= pos[1] /\ pos[1] < MARGIN + 9 * CELL_SIZE
          /\ MARGIN <= pos[2] /\ pos[2] < MARGIN + 9 * CELL_SIZE
          /\ handle_click(pos) = None

\* C24: hints is always between 0 and 3; a step raises it only to 3, and only
\* a step of generate_new_puzzle or of the reset button does; every cell that
\* get_hint fills costs one hint, so at most 3 are filled until hints is set
\* to 3 again.
C24_HintsBudget ==
    /\ [](hints \in 0..3)
    /\ [][/\ hints' > hints =>
               /\ hints' = 3
               /\ \/ ret'.method \in {"__init__", "generate_new_puzzle",
                                       "handle_sidebar_click"}
                  \/ /\ ret'.method = "handle_button_click"
                     /\ ret'.action \in {"new_game", "reset"}
          /\ (\/ ret'.method = "get_hint" /\ board' # board
              \/ /\ ret'.method = "handle_button_click"
                 /\ ret'.action = "hint"
                 /\ board' # board)
             => hints' = hints - 1]_vars

\* A fourth hint has just been refused on a blank selected cell.
C24_Witness ==
    /\ ret = [method |-> "get_hint", value |-> "False"]
    /\ hints = 0
    /\ selected_cell # None
    /\ board[selected_cell[1]][selected_cell[2]] = 0

-----------------------------------------------------------------------------
(* Games played through with the keyboard and hints: the player clicks the *)
(* first blank cell of the board and leaves the buttons alone, so that      *)
(* digit keys and hints can fill the board to its last cell; a new puzzle   *)
(* comes from a call of generate_new_puzzle.                                *)

\* The centre of the first blank cell of board in row-major order.
FirstBlankPosition ==
    LET k == FirstEmpty(board)
    IN <<MARGIN + CELL_SIZE * (k % 9) + CELL_SIZE \div 2,
         MARGIN + CELL_SIZE * (k \div 9) + CELL_SIZE \div 2>>

\* handle_click on the first blank cell.
ClickFirstBlank ==
    /\ Built
    /\ FirstEmpty(board) < 81
    /\ selected_cell' = handle_click(FirstBlankPosition)
    /\ ret' = [method |-> "handle_click", value |-> "None"]
    /\ UNCHANGED <<call, gen, variant, difficulty, board, solution, initial_board,
                   hints, notes_mode, is_game_active, error_count, win_animation,
                   games_played, games_won, puzzles, shares>>

NextPlay ==
    \/ Launch
    \/ Construct
    \/ GenerateNewPuzzle
    \/ ClickFirstBlank
    \/ HandleKey
    \/ GetHint

SpecPlay == Init /\ [][NextPlay]_vars

\* C22: in the enhanced program no state has a board without an empty cell
\* while is_game_active is still True.
C22_FullBoardIsRegistered ==
    (variant = "enhanced" /\ Built /\ is_game_won(board)) => ~is_game_active

\* C23: in the enhanced program the session's games_won never exceeds its
\* games_played.
C23_WonAtMostPlayed ==
    (variant = "enhanced" /\ Built) => games_won <= games_played

-----------------------------------------------------------------------------
(* The main loop: run_sudoku.main builds the game and calls run(), whose   *)
(* every iteration handles the pending events and then draws one frame.    *)
(* ret holds where run() stands.                                           *)

\* The attributes of self that __init__ has assigned when it returns.
InitAttributes(v) ==
    IF v = "basic"
    THEN {"BLACK", "BLUE", "CELL_SIZE", "DARK_BLUE", "GRAY", "GREEN", "GRID_SIZE",
          "LIGHT_GRAY", "MARGIN", "ORANGE", "PURPLE", "RED", "WHITE", "WINDOW_HEIGHT",
          "WINDOW_WIDTH", "board", "difficulty", "error_count", "font_large",
          "font_medium", "font_small", "font_tiny", "game_time", "hints",
          "initial_board", "is_game_active", "notes", "notes_mode", "screen",
          "selected_cell", "solution", "start_time"}
    ELSE {"CELL_SIZE", "GRID_SIZE", "MARGIN", "WINDOW_HEIGHT", "WINDOW_WIDTH",
          "animation_time", "board", "colors", "current_session_stats",
          "current_theme", "difficulty", "error_count", "font_large", "font_medium",
          "font_small", "font_tiny", "game_time", "hints", "initial_board",
          "is_game_active", "notes", "notes_mode", "screen", "selected_cell",
          "solution", "start_time", "stats", "themes", "win_animation"}

\* The attributes of self that the body of a drawing method reads.
AttributesRead(v, method) ==
    IF v = "basic"
    THEN IF method = "draw_grid" THEN {"BLACK", "CELL_SIZE", "MARGIN", "screen"}
         ELSE IF method = "draw_numbers"
         THEN {"BLACK", "BLUE", "CELL_SIZE", "GRAY", "MARGIN", "board", "font_large",
               "font_tiny", "initial_board", "notes", "notes_mode", "screen"}
         ELSE IF method = "draw_selection"
         THEN {"CELL_SIZE", "MARGIN", "ORANGE", "screen", "selected_cell"}
         ELSE IF method = "draw_ui"
         THEN {"BLACK", "CELL_SIZE", "DARK_BLUE", "GRAY", "GREEN", "MARGIN", "ORANGE",
               "PURPLE", "RED", "WINDOW_WIDTH", "error_count", "font_medium",
               "font_small", "game_time", "hints", "is_game_active", "notes_mode",
               "screen", "start_time"}
         ELSE IF method = "draw_buttons"
         THEN {"BLUE", "GREEN", "ORANGE", "PURPLE", "WHITE", "font_small", "screen"}
         ELSE {}
    ELSE IF method = "draw_grid" THEN {"CELL_SIZE", "MARGIN", "colors", "screen"}
         ELSE IF method = "draw_numbers"
         THEN {"CELL_SIZE", "MARGIN", "board", "colors", "font_large", "font_tiny",
               "initial_board", "notes", "screen"}
         ELSE IF method = "draw_selection"
         THEN {"CELL_SIZE", "MARGIN", "board", "colors", "screen", "selected_cell"}
         ELSE IF method = "draw_ui"
         THEN {"CELL_SIZE", "MARGIN", "WINDOW_WIDTH", "colors", "difficulty",
               "error_count", "font_medium", "font_small", "game_time", "hints",
               "is_game_active", "notes_mode", "screen", "start_time"}
         ELSE IF method = "draw_buttons"
         THEN {"GREEN", "colors", "font_small", "screen"}
         ELSE IF method = "draw_sidebar"
         THEN {"GREEN", "WINDOW_HEIGHT", "colors", "difficulty", "font_medium",
               "font_small", "screen", "stats"}
         ELSE {}

\* Reading an attribute that was never assigned raises AttributeError.
raises(v, method) == ~(AttributesRead(v, method) \subseteq InitAttributes(v))

\* The drawing methods one frame of run() goes through: draw_ui calls
\* draw_buttons and, in the enhanced program, draw_sidebar.
FrameMethods(v) ==
    {"draw_grid", "draw_numbers", "draw_selection", "draw_ui", "draw_buttons"}
    \cup (IF v = "enhanced" THEN {"draw_sidebar"} ELSE {})

frame_raises(v) == \E method \in FrameMethods(v) : raises(v, method)

\* run() stands at `at` of its loop, `running` as the QUIT events left it,
\* having last taken `event` from the queue.
InRun(at, running, event) ==
    [method |-> "run", value |-> "None", at |-> at, running |-> running,
     event |-> event]

\* run() left by an exception raised while it handled `event`.
RunRaised(error, event) ==
    [method |-> "run", value |-> error, at |-> "raised", running |-> FALSE,
     event |-> event]

AtEvents == ret.method = "run" /\ ret.at = "events"
AtDraw == ret.method = "run" /\ ret.at = "draw"

\* main calls game.run().
RunStart ==
    /\ ret.method = "__init__"
    /\ ret' = InRun("events", TRUE, <<"none">>)
    /\ UNCHANGED <<call, gen, variant, difficulty, board, solution, initial_board,
                   selected_cell, hints, notes_mode, is_game_active, error_count,
                   win_animation, games_played, games_won, puzzles, shares>>

\* pygame.event.get() returns no event.
RunNoEvent ==
    /\ AtEvents
    /\ ret' = InRun("draw", ret.running, <<"none">>)
    /\ UNCHANGED <<call, gen, variant, difficulty, board, solution, initial_board,
                   selected_cell, hints, notes_mode, is_game_active, error_count,
                   win_animation, games_played, games_won, puzzles, shares>>

\* A QUIT event: the frame is still drawn, then the loop ends.
RunQuit ==
    /\ AtEvents
    /\ ret' = InRun("draw", FALSE, <<"QUIT">>)
    /\ UNCHANGED <<call, gen, variant, difficulty, board, solution, initial_board,
                   selected_cell, hints, notes_mode, is_game_active, error_count,
                   win_animation, games_played, games_won, puzzles, shares>>

\* A KEYDOWN event.
RunKey ==
    \E key \in Keys :
        /\ AtEvents
        /\ handle_key(key)
        /\ ret' = InRun("draw", ret.running, <<"KEYDOWN", key>>)
        /\ UNCHANGED <<call, gen, variant, difficulty, selected_cell, hints,
                       games_played, puzzles, shares>>

\* A MOUSEBUTTONDOWN event of the left button: handle_click, draw_buttons,
\* handle_button_click and, in the enhanced program, handle_sidebar_click.
RunMouse ==
    \E pos \in ClickPositions :
        LET sel == handle_click(pos)
            action == button_at(pos)
            entry == IF variant = "enhanced" THEN sidebar_at(pos) ELSE "None"
        IN
        /\ AtEvents
        /\ IF raises(variant, "draw_buttons")
           THEN /\ selected_cell' = sel
                /\ ret' = RunRaised("AttributeError", <<"MOUSEBUTTONDOWN", pos>>)
                /\ UNCHANGED <<difficulty, board, solution, initial_board, hints,
                               is_game_active, error_count, win_animation,
                               games_played, games_won, shares>>
           ELSE /\ IF action # "None"
                   THEN handle_button_click(action, sel)
                   ELSE IF entry # "None"
                   THEN /\ games_played < MaxGames
                        /\ difficulty' = entry
                        /\ \E seed \in 0..MaxSeed : generate_new_puzzle(seed)
                        /\ UNCHANGED games_won
                   ELSE /\ selected_cell' = sel
                        /\ UNCHANGED <<difficulty, board, solution, initial_board,
                                       hints, is_game_active, error_count,
                                       win_animation, games_played, games_won,
                                       shares>>
                /\ ret' = InRun("draw", ret.running, <<"MOUSEBUTTONDOWN", pos>>)
        /\ UNCHANGED <<call, gen, variant, notes_mode, puzzles>>

\* The rest of the iteration: the frame is drawn, the basic program checks for
\* the win, and the loop goes on or run() returns.
RunDraw ==
    /\ AtDraw
    /\ IF frame_raises(variant)
       THEN /\ ret' = RunRaised("AttributeError", ret.event)
            /\ UNCHANGED is_game_active
       ELSE /\ is_game_active' = IF variant = "basic" /\ is_game_won(board)
                                 THEN FALSE ELSE is_game_active
            /\ ret' = IF ret.running
                      THEN InRun("events", TRUE, ret.event)
                      ELSE InRun("returned", FALSE, ret.event)
    /\ UNCHANGED <<call, gen, variant, difficulty, board, solution, initial_board,
                   selected_cell, hints, notes_mode, error_count, win_animation,
                   games_played, games_won, puzzles, shares>>

\* main ends: normally after run() returned, through `except Exception` and
\* sys.exit(1) after run() raised.
MainExit ==
    /\ ret.method = "run"
    /\ ret.at \in {"returned", "raised"}
    /\ ret' = [method |-> "sys.exit", value |-> IF ret.at = "raised" THEN "1" ELSE "0"]
    /\ UNCHANGED <<call, gen, variant, difficulty, board, solution, initial_board,
                   selected_cell, hints, notes_mode, is_game_active, error_count,
                   win_animation, games_played, games_won, puzzles, shares>>

NextRun ==
    \/ Launch
    \/ Construct
    \/ RunStart
    \/ RunNoEvent
    \/ RunQuit
    \/ RunKey
    \/ RunMouse
    \/ RunDraw
    \/ MainExit

SpecRun == Init /\ [][NextRun]_vars

\* C18: a left click on the hint button, taken from the queue while a blank
\* cell that is not a given is selected and hints are left, fills that cell
\* with the solution's digit and takes one hint.
C18_HintButtonFillsSelected ==
    [][(/\ AtEvents
        /\ ret'.method = "run"
        /\ ret'.event[1] = "MOUSEBUTTONDOWN"
        /\ button_at(ret'.event[2]) = "hint"
        /\ hints > 0
        /\ selected_cell # None
        /\ initial_board[selected_cell[1]][selected_cell[2]] = 0
        /\ board[selected_cell[1]][selected_cell[2]] = 0)
       => /\ board' = [board EXCEPT ![selected_cell[1]][selected_cell[2]] =
                                         solution[selected_cell[1]][selected_cell[2]]]
          /\ hints' = hints - 1]_vars

\* C19: in the enhanced program run() never raises and main never reaches its
\* exit with status 1.
C19_EnhancedRunNeverRaises ==
    variant = "enhanced" =>
        /\ ret.method = "run" => ret.at # "raised"
        /\ ret # [method |-> "sys.exit", value |-> "1"]

====
